---- MODULE Spec2Model ----
(***************************************************************************)
(* Verification model of three parts of the interprocess crate:            *)
(*   - local_socket/tokio/listener/enum.rs : the Tokio Listener dispatch   *)
(*     enum (accept, do_not_reclaim_name_on_drop, poll_next,               *)
(*     is_terminated);                                                     *)
(*   - os/unix/udsocket/credentials/freebsdlike.rs : the Credentials view  *)
(*     over cmsgcred / sockcred and the Groups pointer-range iterator;     *)
(*   - local_socket/name/inner.rs : NameInner and its classification and   *)
(*     ownership conversions.                                              *)
(* Each part has its own specification (Spec, SpecCred, SpecName) over the *)
(* variables of that part; the variables of the other parts stay put.      *)
(***************************************************************************)
EXTENDS Integers, Sequences, FiniteSets, TLC

(***************************************************************************)
(* Bounds of the model.                                                    *)
(***************************************************************************)
\* Connections the kernel queues on the listener during one behaviour.
MaxConns == 3
\* accept() futures that may be alive at once (accept takes &self).
MaxFutures == 2
\* Calls of Groups::next made on one iterator.
MaxCalls == 18
\* How far beyond the inline capacity, and below zero, the group counts of the
\* buffers range (the extremes of the field's type are added to them).
MaxExtra == 2
\* Group ids in the trailing array of a sockcred buffer.
MaxTrail == 3
\* Units in the buffer of a name.
MaxNameLen == 2
\* borrow() and into_owned() applications made on one name.
MaxConversions == 3

VARIABLES
    \* ---- listener part ----
    lst,        \* the Listener: backend variant, liveness, reclaim flag
    pathExists, \* whether the bound filesystem path exists
    queue,      \* the backend's pending connections, in kernel queue order
    log,        \* every connection the kernel queued so far, in order
    futs,       \* the accept() futures alive, by slot
    delivered,  \* results of the completed accept() calls, in order
    lastOp,     \* the operation the last step performed
    lastPoll,   \* what the last poll of accept()/poll_next returned
    abandoned,  \* whether a suspended accept() has been abandoned so far
    \* ---- credentials part ----
    cred,       \* the buffer viewed: a cmsgcred_packed or a sockcred_packed
    endian,     \* byte order of the target
    stored,     \* the group ids the buffer's slots were filled with
    iter,       \* the Groups iterator: cur and end, in slots from the array
    panicked,   \* whether groups() aborted on its unwrap
    yielded,    \* the group ids next() returned so far
    lastNext,   \* what the last next() returned
    calls,      \* next() calls made on the iterator
    maxRead,    \* highest slot next() read, -1 when none
    lastLen,    \* what the last len() returned, -1 when not called
    lastAcc,    \* the last accessor called and its result
    \* ---- name part ----
    target,     \* the build target, which fixes the variants compiled in
    orig,       \* the name as constructed
    name,       \* the name after the conversions applied so far
    conversions, \* borrow() and into_owned() applications so far
    lastQuery   \* the last classification query and its result

lvars == <<lst, pathExists, queue, log, futs, delivered, lastOp, lastPoll, abandoned>>

cvars == <<cred, endian, stored, iter, panicked, yielded, lastNext, calls,
           maxRead, lastLen, lastAcc>>

nvars == <<target, orig, name, conversions, lastQuery>>

vars == <<lvars, cvars, nvars>>

\* The variables each part leaves alone.
notListener == <<cvars, nvars>>
notCred == <<lvars, nvars>>
notName == <<lvars, cvars>>

(***************************************************************************)
(* Values: io::Result, Poll, Option.                                       *)
(***************************************************************************)
Ok(v) == [tag |-> "Ok", val |-> v]
Err(e) == [tag |-> "Err", err |-> e]

IsOk(r) == r.tag = "Ok"
IsErr(r) == r.tag = "Err"

\* Poll::Pending and Poll::Ready(x)
Pending == [poll |-> "Pending"]
Ready(x) == [poll |-> "Ready", out |-> x]

\* Option::Some(x) and Option::None
Some(x) == [some |-> TRUE, item |-> x]
None == [some |-> FALSE]

\* No poll has happened yet.
NoPoll == [poll |-> "NoPoll"]

(***************************************************************************)
(* The backend listener (uds_impl::Listener / np_impl::Listener).  Its     *)
(* code is outside the files modelled here; it is modelled from the        *)
(* documented contract: accept is pending while no connection is queued,   *)
(* otherwise it takes the connection at the head of the kernel queue and   *)
(* yields its stream, or an error when that connection was aborted.        *)
(***************************************************************************)
\* An accept() future that does not exist, and one suspended at its await.
NoFuture == [st |-> "none", held |-> NoPoll]
Suspended == [st |-> "suspended", held |-> NoPoll]

\* One poll of the backend's accept future against the pending set q.
backend_accept(variant, q) ==
    IF q = <<>>
    THEN [poll |-> Pending, q |-> q]
    ELSE LET c == Head(q) IN
         [poll |-> Ready(IF c.kind = "ok"
                         THEN Ok([backend |-> variant, conn |-> c.id])
                         ELSE Err([kind |-> "ConnectionAborted", conn |-> c.id])),
          q |-> Tail(q)]

\* The backend's do_not_reclaim_name_on_drop: clears its reclaim guard.
backend_do_not_reclaim_name_on_drop(l) == [l EXCEPT !.reclaim = FALSE]

\* The backend's destructor: best-effort removal of the bound path when the
\* reclaim guard is still set.
backend_drop(l, exists) == IF l.pathBacked /\ l.reclaim THEN FALSE ELSE exists

\* dispatch::from_options: the backend compiled for the target, bound to the
\* name; reclaim-name-on-drop comes from the options (default true).
from_options(variant, pathBacked, reclaimName) ==
    [variant |-> variant, alive |-> TRUE, pathBacked |-> pathBacked,
     optReclaimName |-> reclaimName, reclaim |-> reclaimName,
     dnrCalled |-> FALSE]

(***************************************************************************)
(* local_socket/tokio/listener/enum.rs                                     *)
(***************************************************************************)
\* Stream::from(backend stream): wraps it in the Stream enum's variant.
Stream_from(s) == [variant |-> s.backend, inner |-> s]

\* Mutant: a default stream stands in for an error (unwrap_or_default).
map_Stream_from_OrDefault(r) ==
    IF IsOk(r) THEN Ok(Stream_from(r.val))
    ELSE Ok([variant |-> "UdSocket", inner |-> [backend |-> "UdSocket", conn |-> 0]])

\* io::Result::map(Stream::from)
map_Stream_from(r) == IF IsOk(r) THEN Ok(Stream_from(r.val)) ELSE r

\* Mutant: a second suspension point after the backend's accept completed; the
\* future holds the result until it is polled again.
accept_YieldsAfterAccept(l, fut, q) ==
    IF fut.held # NoPoll
    THEN [poll |-> fut.held, fut |-> NoFuture, q |-> q]
    ELSE LET inner == backend_accept(l.variant, q) IN
         IF inner.poll = Pending
         THEN [poll |-> Pending, fut |-> Suspended, q |-> inner.q]
         ELSE [poll |-> Pending,
               fut |-> [st |-> "suspended",
                        held |-> Ready(map_Stream_from(inner.poll.out))],
               q |-> inner.q]

\* Mutant: an error is reported without taking the failed connection off the
\* pending set.
accept_ErrKeepsConn(l, fut, q) ==
    LET inner == backend_accept(l.variant, q) IN
    IF inner.poll = Pending
    THEN [poll |-> Pending, fut |-> Suspended, q |-> inner.q]
    ELSE [poll |-> Ready(map_Stream_from(inner.poll.out)),
          fut |-> NoFuture,
          q |-> IF IsErr(inner.poll.out) THEN q ELSE inner.q]

\* Mutant: the backend's accept is awaited twice and the second result is
\* returned when two connections are pending.
accept_Twice(l, fut, q) ==
    LET inner == backend_accept(l.variant, q)
        again == backend_accept(l.variant, inner.q) IN
    IF inner.poll = Pending
    THEN [poll |-> Pending, fut |-> Suspended, q |-> inner.q]
    ELSE IF again.poll = Pending
    THEN [poll |-> Ready(map_Stream_from(inner.poll.out)),
          fut |-> NoFuture, q |-> inner.q]
    ELSE [poll |-> Ready(map_Stream_from(again.poll.out)),
          fut |-> NoFuture, q |-> again.q]

\* One poll of the future of Listener::accept: dispatch to the variant's
\* accept, await it, map the stream.  There is a single await point, so the
\* future never holds a result across a suspension.
accept(l, fut, q) ==
    LET inner == backend_accept(l.variant, q) IN
    IF inner.poll = Pending
    THEN [poll |-> Pending, fut |-> Suspended, q |-> inner.q]
    ELSE [poll |-> Ready(map_Stream_from(inner.poll.out)),
          fut |-> NoFuture, q |-> inner.q]

\* Mutant: the call is not forwarded to the variant.
do_not_reclaim_name_on_drop_NotForwarded(l) == [l EXCEPT !.dnrCalled = TRUE]

\* Listener::do_not_reclaim_name_on_drop: dispatch to the variant.
do_not_reclaim_name_on_drop(l) ==
    [backend_do_not_reclaim_name_on_drop(l) EXCEPT !.dnrCalled = TRUE]

\* Mutant: the result is mapped with Result::ok, so an error ends the sequence.
poll_next_ResultOk(l, q) ==
    LET r == accept(l, NoFuture, q) IN
    [poll |-> IF r.poll = Pending THEN Pending
              ELSE IF IsOk(r.poll.out) THEN Ready(Some(r.poll.out))
              ELSE Ready(None),
     q |-> r.q]

\* Mutant: the result of the first future is discarded as a mere wake-up and a
\* second fresh future is polled for the result to return.
poll_next_PollsTwice(l, q) ==
    LET first == accept(l, NoFuture, q)
        r == accept(l, NoFuture, first.q) IN
    IF first.poll = Pending
    THEN [poll |-> Pending, q |-> first.q]
    ELSE [poll |-> IF r.poll = Pending THEN Pending ELSE Ready(Some(r.poll.out)),
          q |-> r.q]

\* AsyncIterator::poll_next: a fresh accept future, polled once, mapped with
\* Some, and dropped on return.
poll_next(l, q) ==
    LET r == accept(l, NoFuture, q) IN
    [poll |-> IF r.poll = Pending THEN Pending ELSE Ready(Some(r.poll.out)),
     q |-> r.q]

\* FusedAsyncIterator::is_terminated
is_terminated(l) == FALSE

(***************************************************************************)
(* Listener actions.                                                       *)
(***************************************************************************)
Slots == 1..MaxFutures

NoLiveFuture == \A f \in Slots : futs[f] = NoFuture

\* The result a poll adds to the completed calls: none while pending.
Record(r) == IF r.poll = "Ready" THEN <<r.out>> ELSE <<>>

(***************************************************************************)
(* The parts at rest: what the specification of one part holds the others *)
(* to.                                                                    *)
(***************************************************************************)
\* No buffer, no iterator, no accessor call.
NoCred == [layout |-> "none"]
NoIter == [live |-> FALSE]
NoAcc == [fn |-> "none"]

\* The listener part at rest, in the specifications of the other parts.
IdleListener ==
    /\ lst = from_options("UdSocket", FALSE, TRUE)
    /\ pathExists = FALSE
    /\ queue = <<>>
    /\ log = <<>>
    /\ futs = [f \in Slots |-> NoFuture]
    /\ delivered = <<>>
    /\ lastOp = "none"
    /\ lastPoll = NoPoll
    /\ abandoned = FALSE

\* The credentials part at rest, in the specifications of the other parts.
IdleCred ==
    /\ cred = NoCred
    /\ endian = "little"
    /\ stored = <<>>
    /\ iter = NoIter
    /\ panicked = FALSE
    /\ yielded = <<>>
    /\ lastNext = NoPoll
    /\ calls = 0
    /\ maxRead = -1
    /\ lastLen = -1
    /\ lastAcc = NoAcc

\* The name part at rest, in the specifications of the other parts.
IdleName ==
    /\ target = "linux"
    /\ orig = [variant |-> "none"]
    /\ name = [variant |-> "none"]
    /\ conversions = 0
    /\ lastQuery = NoAcc

InitListener ==
    /\ IdleCred
    /\ IdleName
    /\ \E variant \in {"UdSocket", "NamedPipe"}, pathBacked \in BOOLEAN,
          reclaimName \in BOOLEAN :
          /\ (variant = "NamedPipe" => ~pathBacked)
          /\ lst = from_options(variant, pathBacked, reclaimName)
          /\ pathExists = pathBacked
    /\ queue = <<>>
    /\ log = <<>>
    /\ futs = [f \in Slots |-> NoFuture]
    /\ delivered = <<>>
    /\ lastOp = "from_options"
    /\ lastPoll = NoPoll
    /\ abandoned = FALSE

\* The kernel queues one more incoming connection, sound or aborted.
Arrive ==
    /\ lst.alive
    /\ Len(log) < MaxConns
    /\ \E kind \in {"ok", "aborted"} :
          LET c == [id |-> Len(log) + 1, kind |-> kind] IN
          /\ queue' = Append(queue, c)
          /\ log' = Append(log, c)
    /\ lastOp' = "arrive"
    /\ UNCHANGED <<lst, pathExists, futs, delivered, lastPoll, abandoned>>
    /\ UNCHANGED notListener

\* A poll of the accept future in slot f.
PollFuture(f, op) ==
    LET r == accept(lst, futs[f], queue) IN
    /\ futs' = [futs EXCEPT ![f] = r.fut]
    /\ queue' = r.q
    /\ delivered' = delivered \o Record(r.poll)
    /\ lastPoll' = r.poll
    /\ lastOp' = op
    /\ UNCHANGED <<lst, pathExists, log, abandoned>>
    /\ UNCHANGED notListener

\* listener.accept() is called and polled for the first time.
AcceptCall ==
    /\ lst.alive
    /\ \E f \in Slots : futs[f].st = "none" /\ PollFuture(f, "accept")

\* A suspended accept() is polled again.
AcceptResume ==
    /\ lst.alive
    /\ \E f \in Slots : futs[f].st = "suspended" /\ PollFuture(f, "resume")

\* A suspended accept() future is dropped (timeout, select!, task abort).
AcceptAbandon ==
    /\ \E f \in Slots :
          /\ futs[f].st = "suspended"
          /\ futs' = [futs EXCEPT ![f] = NoFuture]
    /\ abandoned' = TRUE
    /\ lastOp' = "abandon"
    /\ UNCHANGED <<lst, pathExists, queue, log, delivered, lastPoll>>
    /\ UNCHANGED notListener

\* The listener is polled as an async iterator (needs Pin<&mut Self>, hence no
\* accept future borrowing it).
PollNext ==
    /\ lst.alive
    /\ NoLiveFuture
    /\ LET r == poll_next(lst, queue) IN
          /\ queue' = r.q
          /\ lastPoll' = r.poll
          /\ delivered' = delivered \o
                (IF r.poll.poll = "Ready" /\ r.poll.out.some
                 THEN <<r.poll.out.item>> ELSE <<>>)
          /\ abandoned' = (abandoned \/ r.poll = Pending)
    /\ lastOp' = "poll_next"
    /\ UNCHANGED <<lst, pathExists, log, futs>>
    /\ UNCHANGED notListener

\* do_not_reclaim_name_on_drop() is called (needs &mut self).
DoNotReclaim ==
    /\ lst.alive
    /\ NoLiveFuture
    /\ lst' = do_not_reclaim_name_on_drop(lst)
    /\ lastOp' = "do_not_reclaim_name_on_drop"
    /\ UNCHANGED <<pathExists, queue, log, futs, delivered, lastPoll, abandoned>>
    /\ UNCHANGED notListener

\* The listener is destroyed.
DropListener ==
    /\ lst.alive
    /\ NoLiveFuture
    /\ lst' = [lst EXCEPT !.alive = FALSE]
    /\ pathExists' = backend_drop(lst, pathExists)
    /\ lastOp' = "drop"
    /\ UNCHANGED <<queue, log, futs, delivered, lastPoll, abandoned>>
    /\ UNCHANGED notListener

(***************************************************************************)
(* os/unix/udsocket/credentials/freebsdlike.rs                             *)
(***************************************************************************)
\* libc::CMGROUP_MAX, the length of cmsgcred_packed::cmcred_groups.
CMGROUP_MAX == 16
\* Range of c_short, the type of cmcred_ngroups.
C_SHORT_MAX == 32767
C_SHORT_MIN == -32768
\* size_of::<gid_t>(), the length of a gid_packed.
GID_SIZE == 4

Min(a, b) == IF a <= b THEN a ELSE b

\* The bytes of a gid_t in memory, in the target's byte order.
to_ne_bytes(e, v) ==
    LET le == [i \in 1..GID_SIZE |-> (v \div (256 ^ (i - 1))) % 256] IN
    IF e = "little" THEN le ELSE [i \in 1..GID_SIZE |-> le[GID_SIZE + 1 - i]]

\* gid_t::from_ne_bytes
from_ne_bytes(e, b) ==
    IF e = "little"
    THEN b[1] + b[2] * 256 + b[3] * 65536 + b[4] * 16777216
    ELSE b[1] * 16777216 + b[2] * 65536 + b[3] * 256 + b[4]

\* Credentials::euid
euid(c) == Some(IF c.layout = "Cmsgcred" THEN c.cmcred_euid ELSE c.sc_euid)

\* Credentials::ruid
ruid(c) == Some(IF c.layout = "Cmsgcred" THEN c.cmcred_uid ELSE c.sc_uid)

\* Mutant: the real gid stands in for the effective gid cmsgcred lacks.
egid_FallsBackToGid(c) ==
    IF c.layout = "Cmsgcred" THEN Some(c.cmcred_gid) ELSE Some(c.sc_egid)

\* Credentials::egid
egid(c) == IF c.layout = "Cmsgcred" THEN None ELSE Some(c.sc_egid)

\* Credentials::rgid
rgid(c) == Some(IF c.layout = "Cmsgcred" THEN c.cmcred_gid ELSE c.sc_gid)

\* Credentials::pid
pid(c) == IF c.layout = "Cmsgcred" THEN Some(c.cmcred_pid) ELSE None

\* Credentials::ptr_to_gids: the address of the first slot of the group
\* array; addresses are counted in gid_packed slots from there.
ptr_to_gids(c) == 0

\* The slots the buffer holds behind ptr_to_gids.
GroupSlots(c) ==
    IF c.layout = "Cmsgcred" THEN c.cmcred_groups ELSE c.sc_groups

\* i32 -> usize by TryInto: fails on a negative value.
try_to_usize(x) == IF x < 0 THEN Err("TryFromIntError") ELSE Ok(x)

\* Mutant: the count of a cmsgcred is used as it is, without the clamp.
n_groups_Unclamped(c) ==
    try_to_usize(IF c.layout = "Cmsgcred" THEN c.cmcred_ngroups ELSE c.sc_ngroups)

\* Mutant: the count of a sockcred is clamped to CMGROUP_MAX as well.
n_groups_ClampsBoth(c) ==
    try_to_usize(Min(IF c.layout = "Cmsgcred" THEN c.cmcred_ngroups ELSE c.sc_ngroups,
                     CMGROUP_MAX))

\* The element count groups() computes: the count field, clamped to
\* CMGROUP_MAX for a cmsgcred, widened to c_int, converted to usize.
n_groups(c) ==
    try_to_usize(IF c.layout = "Cmsgcred"
                 THEN Min(c.cmcred_ngroups, CMGROUP_MAX)
                 ELSE c.sc_ngroups)

\* Credentials::groups: panics on the unwrap, or builds the iterator.
groups(c) ==
    LET n == n_groups(c) IN
    IF IsErr(n)
    THEN [panic |-> TRUE, it |-> NoIter]
    ELSE [panic |-> FALSE,
          it |-> [live |-> TRUE, cur |-> ptr_to_gids(c),
                  end |-> ptr_to_gids(c) + n.val]]

\* The gid_packed at slot a of the buffer; g is what memory holds beyond it.
Deref(c, a, g) ==
    IF a >= 0 /\ a < Len(GroupSlots(c)) THEN GroupSlots(c)[a + 1] ELSE g

\* Mutant: the cursor is advanced before the slot is read.
next_ReadsAfterAdvance(it, c, e, g) ==
    IF it.cur >= it.end
    THEN [it |-> it, out |-> None, read |-> -1]
    ELSE [it |-> [it EXCEPT !.cur = it.cur + 1],
          out |-> Some(from_ne_bytes(e, Deref(c, it.cur + 1, g))),
          read |-> it.cur + 1]

\* Mutant: the cursor is not compared with end before it is read and advanced.
next_NoEndCheck(it, c, e, g) ==
    [it |-> [it EXCEPT !.cur = it.cur + 1],
     out |-> Some(from_ne_bytes(e, Deref(c, it.cur, g))),
     read |-> it.cur]

\* Groups::next
next(it, c, e, g) ==
    IF it.cur >= it.end
    THEN [it |-> it, out |-> None, read |-> -1]
    ELSE [it |-> [it EXCEPT !.cur = it.cur + 1],
          out |-> Some(from_ne_bytes(e, Deref(c, it.cur, g))),
          read |-> it.cur]

\* Mutant: the operands of offset_from are swapped.
len_Swapped(it) == it.cur - it.end

\* Groups::len: the distance from cur to end, cast to usize.
len(it) == it.end - it.cur

\* Groups::size_hint
size_hint(it) == <<len(it), Some(len(it))>>

(***************************************************************************)
(* Credentials actions.                                                    *)
(***************************************************************************)
\* The group ids the slots are filled with; each has a byte of its own in
\* every position that its index reaches.
GroupPatterns ==
    {[i \in 1..(CMGROUP_MAX + MaxExtra) |-> 100 * i],
     [i \in 1..(CMGROUP_MAX + MaxExtra) |-> 16777216 * i + 256 * i + 7]}

\* The scalar ids of a buffer: all zero, or all different.
IdProfiles ==
    {[pid |-> 0, uid |-> 0, euid |-> 0, gid |-> 0, egid |-> 0],
     [pid |-> 4242, uid |-> 1000, euid |-> 1001, gid |-> 100, egid |-> 101]}

\* Values of cmcred_ngroups, and of sc_ngroups.
CmsgcredCounts ==
    ((0 - MaxExtra)..(CMGROUP_MAX + MaxExtra)) \cup {C_SHORT_MIN, C_SHORT_MAX}
SockcredCounts == ((0 - MaxExtra)..MaxTrail) \cup {CMGROUP_MAX + 1}

\* What memory may hold beyond the buffer.
Garbage == {<<0, 0, 0, 0>>, <<222, 173, 190, 239>>}

Max(a, b) == IF a >= b THEN a ELSE b

InitCred ==
    /\ IdleListener
    /\ IdleName
    /\ endian \in {"little", "big"}
    /\ stored \in GroupPatterns
    /\ \E p \in IdProfiles :
          \/ \E n \in CmsgcredCounts :
                cred = [layout |-> "Cmsgcred",
                        cmcred_pid |-> p.pid, cmcred_uid |-> p.uid,
                        cmcred_euid |-> p.euid, cmcred_gid |-> p.gid,
                        cmcred_ngroups |-> n,
                        cmcred_groups |->
                            [i \in 1..CMGROUP_MAX |-> to_ne_bytes(endian, stored[i])]]
          \/ \E n \in SockcredCounts :
                cred = [layout |-> "Sockcred",
                        sc_uid |-> p.uid, sc_euid |-> p.euid,
                        sc_gid |-> p.gid, sc_egid |-> p.egid,
                        sc_ngroups |-> n,
                        sc_groups |->
                            [i \in 1..Max(n, 1) |-> to_ne_bytes(endian, stored[i])]]
    /\ iter = NoIter
    /\ panicked = FALSE
    /\ yielded = <<>>
    /\ lastNext = NoPoll
    /\ calls = 0
    /\ maxRead = -1
    /\ lastLen = -1
    /\ lastAcc = NoAcc

\* creds.groups() is called; a panic ends the program.
CallGroups ==
    /\ ~panicked
    /\ ~iter.live
    /\ LET r == groups(cred) IN
          /\ panicked' = r.panic
          /\ iter' = r.it
    /\ UNCHANGED <<cred, endian, stored, yielded, lastNext, calls, maxRead,
                   lastLen, lastAcc>>
    /\ UNCHANGED notCred

\* next() is called on the iterator.
CallNext ==
    /\ iter.live
    /\ calls < MaxCalls
    /\ \E g \in Garbage :
          LET r == next(iter, cred, endian, g) IN
          /\ iter' = r.it
          /\ lastNext' = r.out
          /\ yielded' = IF r.out.some THEN Append(yielded, r.out.item) ELSE yielded
          /\ maxRead' = Max(maxRead, r.read)
    /\ calls' = calls + 1
    /\ UNCHANGED <<cred, endian, stored, panicked, lastLen, lastAcc>>
    /\ UNCHANGED notCred

\* len() is called on the iterator.
CallLen ==
    /\ iter.live
    /\ lastLen' = len(iter)
    /\ UNCHANGED <<cred, endian, stored, iter, panicked, yielded, lastNext,
                   calls, maxRead, lastAcc>>
    /\ UNCHANGED notCred

\* One of the accessors is called on the view.
Accessed(fn, out) ==
    /\ ~panicked
    /\ lastAcc' = [fn |-> fn, out |-> out]
    /\ UNCHANGED <<cred, endian, stored, iter, panicked, yielded, lastNext,
                   calls, maxRead, lastLen>>
    /\ UNCHANGED notCred

CallEuid == Accessed("euid", euid(cred))
CallRuid == Accessed("ruid", ruid(cred))
CallEgid == Accessed("egid", egid(cred))
CallRgid == Accessed("rgid", rgid(cred))
CallPid == Accessed("pid", pid(cred))

\* size_hint() is called on the iterator.
CallSizeHint == iter.live /\ Accessed("size_hint", size_hint(iter))

NextCred ==
    \/ CallGroups
    \/ CallNext
    \/ CallLen
    \/ CallEuid
    \/ CallRuid
    \/ CallEgid
    \/ CallRgid
    \/ CallPid
    \/ CallSizeHint

SpecCred == InitCred /\ [][NextCred]_vars

Init == InitListener

Next ==
    \/ Arrive
    \/ AcceptCall
    \/ AcceptResume
    \/ AcceptAbandon
    \/ PollNext
    \/ DoNotReclaim
    \/ DropListener

Spec == Init /\ [][Next]_vars

\* The listener consumed as an async iterator only: connections arrive and the
\* consumer keeps polling it (a poll that can change the state is eventually
\* made).
NextStream ==
    \/ Arrive
    \/ PollNext

SpecStream == Init /\ [][NextStream]_vars /\ WF_vars(PollNext)

(***************************************************************************)
(* local_socket/name/inner.rs                                              *)
(***************************************************************************)
\* The variants of NameInner compiled in for a target (the cfg attributes).
Targets == {"windows", "linux", "freebsd"}

VariantsOf(t) ==
    IF t = "windows" THEN {"NamedPipe"}
    ELSE IF t = "linux" THEN {"UdSocketPath", "UdSocketPseudoNs", "UdSocketNs"}
    ELSE {"UdSocketPath", "UdSocketPseudoNs"}

\* The NameInner value: its variant and the Cow it holds.
NameInner(variant, cow, data) == [variant |-> variant, cow |-> cow, data |-> data]

\* NameInner::is_namespaced
is_namespaced(n) ==
    CASE n.variant = "NamedPipe" -> TRUE
      [] n.variant = "UdSocketPath" -> FALSE
      [] n.variant = "UdSocketPseudoNs" -> FALSE
      [] n.variant = "UdSocketNs" -> TRUE

\* NameInner::is_path
is_path(n) ==
    CASE n.variant = "NamedPipe" -> TRUE
      [] n.variant = "UdSocketPath" -> TRUE
      [] n.variant = "UdSocketPseudoNs" -> FALSE
      [] n.variant = "UdSocketNs" -> FALSE

\* PartialEq of NameInner (derived): the same variant and Cows that compare
\* equal, which Cow decides on the contents, borrowed or owned.
NameEq(a, b) == a.variant = b.variant /\ a.data = b.data

\* Mutant: the copy stops one unit short.
to_owned_DropsLast(d) == [i \in 1..(Len(d) - 1) |-> d[i]]

\* ToOwned::to_owned of the borrowed buffer: a copy, element by element.
to_owned(d) == [i \in 1..Len(d) |-> d[i]]

\* Mutant: a terminator is appended to the buffer on every conversion.
Cow_into_owned_AppendsNul(cow, d) == Append(d, 0)

\* Cow::into_owned: the buffer it owns, or a copy of the one it borrows.
Cow_into_owned(cow, d) == IF cow = "Owned" THEN d ELSE to_owned(d)

\* Mutant: the arm of UdSocketPseudoNs builds a UdSocketPath.
map_cow_PseudoNsAsPath(n, cow, data) ==
    NameInner(IF n.variant = "UdSocketPseudoNs" THEN "UdSocketPath" ELSE n.variant,
              cow, data)

\* map_cow!: the same variant around the mapped Cow.
map_cow(n, cow, data) == NameInner(n.variant, cow, data)

\* NameInner::borrow: Cow::Borrowed of the buffer the Cow dereferences to.
borrow(n) == map_cow(n, "Borrowed", n.data)

\* NameInner::into_owned
into_owned(n) == map_cow(n, "Owned", Cow_into_owned(n.cow, n.data))

\* NameInner::default: the empty pipe name or the empty path, in the Cow that
\* Cow::default() builds: Cow::Owned of the owned type's default, an empty
\* buffer the name owns.
default(t) ==
    IF t = "windows" THEN NameInner("NamedPipe", "Owned", <<>>)
    ELSE NameInner("UdSocketPath", "Owned", <<>>)

(***************************************************************************)
(* Name actions.                                                           *)
(***************************************************************************)
\* The buffers of the names: strings of up to MaxNameLen units.
NameUnits == {1, 2}
NameData == UNION {[1..k -> NameUnits] : k \in 0..MaxNameLen}

InitName ==
    /\ IdleListener
    /\ IdleCred
    /\ target \in Targets
    /\ \/ \E v \in VariantsOf(target), c \in {"Borrowed", "Owned"}, d \in NameData :
             orig = NameInner(v, c, d)
       \/ orig = default(target)
    /\ name = orig
    /\ conversions = 0
    /\ lastQuery = NoAcc

\* name.is_path() is called.
CallIsPath ==
    /\ lastQuery' = [fn |-> "is_path", out |-> is_path(name)]
    /\ UNCHANGED <<target, orig, name, conversions>>
    /\ UNCHANGED notName

\* name.is_namespaced() is called.
CallIsNamespaced ==
    /\ lastQuery' = [fn |-> "is_namespaced", out |-> is_namespaced(name)]
    /\ UNCHANGED <<target, orig, name, conversions>>
    /\ UNCHANGED notName

\* name.borrow() is taken and used from here on.
CallBorrow ==
    /\ conversions < MaxConversions
    /\ name' = borrow(name)
    /\ conversions' = conversions + 1
    /\ UNCHANGED <<target, orig, lastQuery>>
    /\ UNCHANGED notName

\* name.into_owned() is taken and used from here on.
CallIntoOwned ==
    /\ conversions < MaxConversions
    /\ name' = into_owned(name)
    /\ conversions' = conversions + 1
    /\ UNCHANGED <<target, orig, lastQuery>>
    /\ UNCHANGED notName

\* name.borrow().into_owned() is evaluated; name itself is only borrowed.
CallRoundTrip ==
    /\ lastQuery' = [fn |-> "round_trip", of |-> name,
                      out |-> into_owned(borrow(name))]
    /\ UNCHANGED <<target, orig, name, conversions>>
    /\ UNCHANGED notName

\* name.clone().into_owned() and its into_owned() are evaluated.
CallIntoOwnedTwice ==
    /\ lastQuery' = [fn |-> "into_owned_twice", of |-> name,
                      once |-> into_owned(name),
                      twice |-> into_owned(into_owned(name))]
    /\ UNCHANGED <<target, orig, name, conversions>>
    /\ UNCHANGED notName

NextName ==
    \/ CallIsPath
    \/ CallIsNamespaced
    \/ CallBorrow
    \/ CallIntoOwned
    \/ CallRoundTrip
    \/ CallIntoOwnedTwice

SpecName == InitName /\ [][NextName]_vars

(***************************************************************************)
(* Claims about the listener.                                              *)
(***************************************************************************)
\* The listener's own state, as an abandoned call must leave it.
ListenerState == <<lst, pathExists, queue, delivered>>

\* A step that polled an accept future or the async iterator.
PolledStep == lastOp' \in {"accept", "resume", "poll_next"}

\* The result of the poll a step made, when it completed: <<result>>, else <<>>.
Completed(p) ==
    IF p.poll # "Ready" THEN <<>>
    ELSE IF lastOp' = "poll_next"
    THEN (IF p.out.some THEN <<p.out.item>> ELSE <<>>)
    ELSE <<p.out>>

\* The result the kernel's connection c must be accepted as.
IsOutcomeOf(r, c) ==
    IF c.kind = "ok"
    THEN IsOk(r) /\ r.val.inner.conn = c.id /\ r.val.variant = lst.variant
    ELSE IsErr(r) /\ r.err.conn = c.id

\* C1: accept is cancellation-safe.  A poll of accept() or of poll_next that
\* returns Pending, and the abandonment of a suspended accept(), leave the
\* listener's state as it was and consume no connection; and once a call has
\* been abandoned, a poll of a fresh accept() made while a connection is
\* pending completes with the connection at the head of the pending set.
C1_CancelSafe ==
    [][ /\ (lastOp' = "abandon" => UNCHANGED ListenerState)
        /\ (PolledStep /\ lastPoll' = Pending => UNCHANGED ListenerState)
        /\ (abandoned /\ lastOp' \in {"accept", "poll_next"} /\ queue # <<>>
              => /\ Completed(lastPoll') # <<>>
                 /\ IsOutcomeOf(Completed(lastPoll')[1], Head(queue))
                 /\ queue' = Tail(queue)) ]_vars

\* C1 witness: after an abandoned call, a fresh accept() returned a stream.
C1_Witness ==
    /\ abandoned
    /\ lastOp = "accept"
    /\ lastPoll.poll = "Ready"
    /\ IsOk(lastPoll.out)

\* C2: an accept-time error does not poison the listener.  A failed
\* connection is reported by the one call that took it, and after any number of
\* errors a completed accept() on a sound pending connection returns Ok with
\* that connection's stream.
C2_NoPoison ==
    [][ (PolledStep /\ queue # <<>> /\ \E i \in 1..Len(delivered) : IsErr(delivered[i]))
          => /\ Completed(lastPoll') # <<>>
             /\ queue' = Tail(queue)
             /\ (Head(queue).kind = "ok"
                   => /\ IsOk(Completed(lastPoll')[1])
                      /\ Completed(lastPoll')[1].val.inner.conn = Head(queue).id) ]_vars

\* C2 witness: an accept() returned Ok after an earlier one returned Err.
C2_Witness ==
    /\ lastOp \in {"accept", "resume"}
    /\ Len(delivered) >= 2
    /\ IsOk(delivered[Len(delivered)])
    /\ \E i \in 1..(Len(delivered) - 1) : IsErr(delivered[i])

\* C3 as stated: after do_not_reclaim_name_on_drop() the destroyed listener
\* leaves the path, and a listener on which it was never called removes it.
C3_Original ==
    (lst.pathBacked /\ ~lst.alive)
        => IF lst.dnrCalled THEN pathExists ELSE ~pathExists

\* C3 (amended): after do_not_reclaim_name_on_drop() the destroyed path-backed
\* listener leaves the path in place, whatever was done in between; a listener
\* created with name reclamation enabled (the default of the options) on which
\* it was never called removes the path when destroyed.
C3_Reclaim ==
    (lst.pathBacked /\ ~lst.alive)
        => /\ (lst.dnrCalled => pathExists)
           /\ (~lst.dnrCalled /\ lst.optReclaimName => ~pathExists)

\* C3 witness: a path-backed listener created with reclamation enabled was
\* destroyed after the call, following completed accepts, and the path is there.
C3_Witness ==
    /\ lst.pathBacked /\ lst.optReclaimName /\ lst.dnrCalled
    /\ ~lst.alive
    /\ delivered # <<>>
    /\ pathExists

\* C4: the connection sequence never ends.  poll_next returns Pending or
\* Ready(Some(result)), never Ready(None), also after polls that produced
\* errors, and is_terminated() is false.
C4_NeverEnds ==
    /\ (lastOp = "poll_next"
          => \/ lastPoll = Pending
             \/ lastPoll.poll = "Ready" /\ lastPoll.out.some)
    /\ ~is_terminated(lst)

\* C4 witness: poll_next produced an error as an element of the sequence.
C4_Witness ==
    /\ lastOp = "poll_next"
    /\ lastPoll.poll = "Ready"
    /\ lastPoll.out.some
    /\ IsErr(lastPoll.out.item)

\* C5: a completed accept() consumes at most one pending connection.  An Ok
\* result carries the stream of the connection taken, and exactly that one
\* connection left the pending set; an Err result carries no stream; no step
\* takes more than one connection.
C5_OnePerAccept ==
    [][ /\ Len(queue') >= Len(queue) - 1
        /\ (PolledStep /\ Completed(lastPoll') # <<>>
              => LET r == Completed(lastPoll')[1] IN
                 /\ queue # <<>>
                 /\ queue' = Tail(queue)
                 /\ Len(delivered') = Len(delivered) + 1
                 /\ IsOk(r) => (Head(queue).kind = "ok"
                                  /\ r.val.inner.conn = Head(queue).id)
                 /\ IsErr(r) => "val" \notin DOMAIN r) ]_vars

\* C5 witness: an accept() completed with a stream while another connection
\* stayed pending.
C5_Witness ==
    /\ lastOp \in {"accept", "resume"}
    /\ lastPoll.poll = "Ready"
    /\ IsOk(lastPoll.out)
    /\ queue # <<>>

\* C6: completed accepts return connections in kernel queue order.  The i-th
\* completed call, direct or through poll_next, returned the i-th connection the
\* kernel queued, so none is returned early, twice or skipped.
C6_Order ==
    /\ Len(delivered) <= Len(log)
    /\ \A i \in 1..Len(delivered) : IsOutcomeOf(delivered[i], log[i])
    /\ queue = SubSeq(log, Len(delivered) + 1, Len(log))

\* C6 witness: three calls completed, with an abandoned call in between, the
\* last of them through poll_next.
C6_Witness ==
    /\ Len(delivered) >= 3
    /\ abandoned
    /\ lastOp = "poll_next"
    /\ lastPoll.poll = "Ready"

\* Connection i waits in the kernel queue.
Queued(i) == \E k \in 1..Len(queue) : queue[k].id = i

\* The last operation was a poll_next that returned connection i's outcome.
PollNextReturned(i) ==
    /\ Len(log) >= i
    /\ lastOp = "poll_next"
    /\ lastPoll.poll = "Ready"
    /\ lastPoll.out.some
    /\ IsOutcomeOf(lastPoll.out.item, log[i])

\* C19: no connection is lost by polling the listener as an async iterator.
\* Under repeated polling every queued connection, one that arrived after a
\* poll_next returned Pending included, is eventually returned by a poll_next as
\* Ready(Some(..)): Ok(stream) of that connection when it is sound, its error
\* when it was aborted.
C19_NoLoss ==
    \A i \in 1..MaxConns :
        Queued(i) ~> (PollNextReturned(i) /\ Len(delivered) = i /\ ~Queued(i))

\* C19 witness: a poll_next returned Pending on the empty queue, then a sound
\* connection arrived, and the next poll_next returned its stream.
C19_Witness ==
    /\ abandoned
    /\ Len(log) = 1
    /\ log[1].kind = "ok"
    /\ queue = <<>>
    /\ lastOp = "poll_next"
    /\ lastPoll = Ready(Some(Ok(Stream_from([backend |-> lst.variant, conn |-> 1]))))
    /\ delivered = <<lastPoll.out.item>>

(***************************************************************************)
(* Claims about the credentials.                                           *)
(***************************************************************************)
\* C7: for a cmsgcred whose cmcred_ngroups is n with 0 <= n <= 16, groups()
\* yields the first n inline slots in index order: after k calls of next() the
\* ids yielded are those stored in slots 1..min(k, n), the k-th call returned
\* the k-th slot's id when k <= n, and every call after the n-th returned
\* exhausted.
C7_InlineGroups ==
    (cred.layout = "Cmsgcred" /\ cred.cmcred_ngroups >= 0
        /\ cred.cmcred_ngroups <= CMGROUP_MAX)
      => /\ ~panicked
         /\ iter.live =>
              LET n == cred.cmcred_ngroups IN
              /\ yielded = [i \in 1..Min(calls, n) |-> stored[i]]
              /\ (calls > 0 /\ calls <= n => lastNext = Some(stored[calls]))
              /\ (calls > n => lastNext = None)

\* C7 witness: n = 3 with slots 100, 200, 300: they were yielded in that order
\* and two further calls returned exhausted.
C7_Witness ==
    /\ cred.layout = "Cmsgcred"
    /\ cred.cmcred_ngroups = 3
    /\ yielded = <<100, 200, 300>>
    /\ calls = 5
    /\ lastNext = None

\* C8: for a cmsgcred whose cmcred_ngroups exceeds the inline capacity,
\* groups() yields at most CMGROUP_MAX elements and next() never reads a slot
\* outside cmcred_groups.
C8_Clamp ==
    (cred.layout = "Cmsgcred" /\ cred.cmcred_ngroups > CMGROUP_MAX)
      => /\ ~panicked
         /\ Len(yielded) <= CMGROUP_MAX
         /\ maxRead < CMGROUP_MAX
         /\ iter.live => (iter.cur <= CMGROUP_MAX /\ iter.end = CMGROUP_MAX)

\* C8 witness: a count of 32767 yielded the sixteen inline slots and then
\* exhausted.
C8_Witness ==
    /\ cred.layout = "Cmsgcred"
    /\ cred.cmcred_ngroups = C_SHORT_MAX
    /\ Len(yielded) = CMGROUP_MAX
    /\ maxRead = CMGROUP_MAX - 1
    /\ lastNext = None

\* C9: accessor presence by layout.  euid, ruid and rgid are present and equal
\* to the stored field in both layouts; egid is present (sc_egid) for sockcred
\* and absent for cmsgcred; pid is present (cmcred_pid) for cmsgcred and absent
\* for sockcred; absence is not a zero id and a stored zero is a present zero.
C9_Accessors ==
    LET a == cred.layout = "Cmsgcred"
        out == lastAcc.out IN
    /\ lastAcc.fn = "euid" =>
          (out.some /\ out.item = IF a THEN cred.cmcred_euid ELSE cred.sc_euid)
    /\ lastAcc.fn = "ruid" =>
          (out.some /\ out.item = IF a THEN cred.cmcred_uid ELSE cred.sc_uid)
    /\ lastAcc.fn = "rgid" =>
          (out.some /\ out.item = IF a THEN cred.cmcred_gid ELSE cred.sc_gid)
    /\ lastAcc.fn = "egid" =>
          IF a THEN out = None /\ out # Some(0)
          ELSE out.some /\ out.item = cred.sc_egid
    /\ lastAcc.fn = "pid" =>
          IF a THEN out.some /\ out.item = cred.cmcred_pid
          ELSE out = None /\ out # Some(0)

\* C9 witness: egid() on a cmsgcred whose ids are all zero reported absence.
C9_Witness ==
    /\ cred.layout = "Cmsgcred"
    /\ cred.cmcred_gid = 0
    /\ lastAcc.fn = "egid"
    /\ ~lastAcc.out.some

(***************************************************************************)
(* Claims about the names.                                                 *)
(***************************************************************************)
\* C10: for every name of every variant (named pipe, filesystem path,
\* pseudo-namespaced, true namespaced), is_path() and is_namespaced() are never
\* both true.
C10_Original == ~(is_path(name) /\ is_namespaced(name))

\* C11: the classification matches what the variant denotes.  is_path() is
\* true exactly for the filesystem-path and the pseudo-namespaced variants, and
\* is_namespaced() exactly for the true namespaced and the named pipe variants.
C11_Original ==
    /\ is_path(name) <=> name.variant \in {"UdSocketPath", "UdSocketPseudoNs"}
    /\ is_namespaced(name) <=> name.variant \in {"UdSocketNs", "NamedPipe"}

\* C12: classification is stable under ownership conversion.  After any
\* sequence of borrow() and into_owned() the name has the variant it was
\* constructed with, hence the same is_path() and is_namespaced().
C12_Stable ==
    /\ name.variant = orig.variant
    /\ is_path(name) = is_path(orig)
    /\ is_namespaced(name) = is_namespaced(orig)

\* C12 witness: a borrowed pseudo-namespaced name after an into_owned() and a
\* borrow().
C12_Witness ==
    /\ orig.variant = "UdSocketPseudoNs"
    /\ orig.cow = "Borrowed"
    /\ conversions >= 2
    /\ name.cow = "Borrowed"
    /\ name.data # <<>>

\* C13: round trip.  For a name n of any variant, borrowed or owned,
\* n.borrow().into_owned() equals n under value equality, with the same variant
\* and the same units (n is only borrowed by the operation).
C13_RoundTrip ==
    lastQuery.fn = "round_trip"
      => /\ NameEq(lastQuery.out, lastQuery.of)
         /\ lastQuery.out.variant = lastQuery.of.variant
         /\ Len(lastQuery.out.data) = Len(lastQuery.of.data)
         /\ \A i \in 1..Len(lastQuery.of.data) :
               lastQuery.out.data[i] = lastQuery.of.data[i]

\* C13 witness: the round trip of an owned name of full length was taken.
C13_Witness ==
    /\ lastQuery.fn = "round_trip"
    /\ lastQuery.of.cow = "Owned"
    /\ Len(lastQuery.of.data) = MaxNameLen
    /\ lastQuery.out.cow = "Owned"

\* C14: into_owned() is idempotent in content.  n.into_owned().into_owned()
\* equals n.into_owned(): the same variant, the same units, owned storage.
C14_Idempotent ==
    lastQuery.fn = "into_owned_twice"
      => /\ lastQuery.twice.variant = lastQuery.once.variant
         /\ lastQuery.twice.data = lastQuery.once.data
         /\ lastQuery.twice.cow = "Owned"
         /\ lastQuery.once.cow = "Owned"
         /\ NameEq(lastQuery.twice, lastQuery.once)

\* C14 witness: into_owned() was applied twice to a borrowed name with units.
C14_Witness ==
    /\ lastQuery.fn = "into_owned_twice"
    /\ lastQuery.of.cow = "Borrowed"
    /\ lastQuery.of.data # <<>>
    /\ lastQuery.twice.data = lastQuery.of.data

(***************************************************************************)
(* Claims about the Groups iterator.                                       *)
(***************************************************************************)
\* The element count the iterator was created over.
CountAtCreation ==
    IF cred.layout = "Cmsgcred"
    THEN Min(cred.cmcred_ngroups, CMGROUP_MAX)
    ELSE cred.sc_ngroups

\* C15: the remaining count is exact at any time.  For an iterator created
\* over n elements, after k calls of next(), calls made after exhaustion
\* included, len() is max(n - k, 0) and size_hint() is (len(), Some(len())).
C15_ExactLen ==
    iter.live =>
        LET left == Max(CountAtCreation - calls, 0) IN
        /\ len(iter) = left
        /\ size_hint(iter) = <<left, Some(left)>>
        /\ size_hint(iter)[1] = len(iter)
        /\ size_hint(iter)[2] = Some(len(iter))
        /\ left = CountAtCreation - Len(yielded)

\* C15 witness: len() returned 0 on an iterator over three elements that was
\* polled twice more after it was exhausted.
C15_Witness ==
    /\ iter.live
    /\ CountAtCreation = 3
    /\ calls = 5
    /\ lastLen = 0
    /\ lastAcc.fn = "size_hint"
    /\ lastAcc.out = <<0, Some(0)>>

\* C16: the count of a sockcred is trusted as it is.  With sc_ngroups = n >= 0,
\* groups() yields exactly n elements, the trailing entries 0..n-1 in order,
\* with no clamp to any capacity.
C16_SockcredCount ==
    (cred.layout = "Sockcred" /\ cred.sc_ngroups >= 0)
      => /\ ~panicked
         /\ iter.live =>
              LET n == cred.sc_ngroups IN
              /\ iter.end - ptr_to_gids(cred) = n
              /\ yielded = [i \in 1..Min(calls, n) |-> stored[i]]
              /\ (calls > 0 /\ calls <= n => lastNext = Some(stored[calls]))
              /\ (calls > n => lastNext = None /\ Len(yielded) = n)

\* C16 witness: a sockcred with one group more than CMGROUP_MAX yielded all of
\* them and then exhausted.
C16_Witness ==
    /\ cred.layout = "Sockcred"
    /\ cred.sc_ngroups = CMGROUP_MAX + 1
    /\ Len(yielded) = CMGROUP_MAX + 1
    /\ lastNext = None

\* C17: groups() is total.  For every value of the count field, zero and
\* negative values included, groups() returns an iterator and never panics
\* while converting the count to usize.
C17_Total == ~panicked

\* C18: cursor invariant.  In every state reached from groups() by next(),
\* len() and size_hint() calls, start <= cur <= end with end = start + count
\* fixed at creation; next() advances cur by exactly one when cur < end and
\* leaves it otherwise; the other calls leave the iterator alone; the distance
\* end - cur that len() computes is never negative.
C18_Cursor ==
    [][ /\ iter'.live =>
              /\ ptr_to_gids(cred') <= iter'.cur
              /\ iter'.cur <= iter'.end
              /\ iter'.end = ptr_to_gids(cred') + CountAtCreation'
              /\ iter'.end - iter'.cur >= 0
              /\ len(iter') >= 0
        /\ (iter.live /\ iter'.live) =>
              /\ iter'.end = iter.end
              /\ calls' = calls + 1 =>
                    iter'.cur = IF iter.cur < iter.end THEN iter.cur + 1 ELSE iter.cur
              /\ calls' = calls => iter' = iter ]_vars

\* C18 witness: the cursor stands at end, after a next() past exhaustion and a
\* len() and a size_hint() call made there.
C18_Witness ==
    /\ iter.live
    /\ iter.end > 0
    /\ iter.cur = iter.end
    /\ calls > iter.end
    /\ lastLen = 0
    /\ lastAcc.fn = "size_hint"
    /\ lastAcc.out[1] = 0

====
